---- MODULE Spec2Model ----
(***************************************************************************)
(* Closed-loop motion controllers of the SPIKE Prime motor-pair scripts:   *)
(*   motor_pair_lib.py       setup, stop_motors, turn_right, turn_left,    *)
(*                           move_forward, move_backward                   *)
(*   motor_pair_straight.py  move_straight_with_gyro                       *)
(* One caller task invokes the controllers one after the other.  Hardware  *)
(* calls of motor_pair and motor may raise; the yaw sensor is a free       *)
(* environment input.  An uncaught exception ends the program.             *)
(***************************************************************************)
EXTENDS Integers, Sequences, FiniteSets, TLC

----------------------------------------------------------------------------
(* Bounds of the model *)

MaxYaw == 2
MaxDegrees == 5
MaxDistance == 1
MaxCap == 8
MaxError == 70
MaxTaskPasses == 4
MaxInches == 6
MaxCircumferences == 4
MaxAngle == 180
MaxEstimateDistance == 10

(* Program constants *)

DEFAULT_SPEED == 30
TurnMaxIterations == 300
StopThreshold == 3
Deadband == 1
MinSpeed == 10
MaxSpeed == 100
MaxSteering == 100
IterationsPerInch == 15
ReferenceSpeed == 30
PiE5 == 314159
UnitsPerInch == 100000
WHEEL_DIAMETER == 2
WheelBaseHalves == 9

(* Inputs *)

YawSet == {-MaxYaw, -1, 0, 1, MaxYaw}
InitialYaws == {0, 1}
DegreeArgs == {-1, 0, 3, MaxDegrees}
DistanceArgs == {-1, 0, MaxDistance}
SpeedArgs == {0, 30, 60}
CapArgs == {0, 7, MaxCap}
Turns == {"turn_right", "turn_left"}
Moves == {"move_forward", "move_backward"}
MoveDistances == {-1, 0, 1}
MoveTimes == {-1, 0, 1}
DistanceInputs ==
    {UnitsPerInch * n : n \in (-3)..MaxInches}
        \cup {-50000, -1746, -1745, -1, 1, 2, 1745, 1746, 50000, 250000}
CircumferenceCounts == 1..MaxCircumferences
Diameters == {-WHEEL_DIAMETER, 0, WHEEL_DIAMETER}
DiameterInputs == {-UnitsPerInch, 0, 3 * UnitsPerInch}
TurnAngles ==
    {-28, -4, -2, -1, 0, 1, 2, 3, 4, 7, 8, 14, 22, 28, 44, 56, 90, MaxAngle}
WideYaw == (-MaxError)..MaxError
EstimateDistances == {-1, 3, 6, 7, MaxEstimateDistance}
EstimateSpeeds == {30, 70}
EstimateCaps == {250, 400, 600}
SteerSpeeds == {5, 30, 60, 100, 120}
SteerCap == 1

(* yaw values of a sensor that wraps into [-180, 180], and turns near and
   beyond what such a sensor can show *)
WrappedYaws == {-180, -179, -1, 0, 1, 179, 180}
LargeTurns == {183, 184, 200}

(* A read of the yaw sensor: a value, or a raise *)
YawReads(S) == [ok : {TRUE}, v : S] \cup {[ok |-> FALSE, v |-> 0]}

(* Which hardware calls raise: motor_pair call with the pair id, motor_pair
   call without it, motor call on the left port, motor call on the right.
   Every ladder of the code tries the calls in this order and stops at the
   first that does not raise, or at the first motor call that raises, so a
   flag is set only for a call that can be reached. *)
Faults ==
    {f \in [pair : BOOLEAN, nopair : BOOLEAN, l : BOOLEAN, r : BOOLEAN] :
        /\ f.nopair => f.pair
        /\ (f.l \/ f.r) => f.nopair
        /\ ~(f.l /\ f.r)}

(* no hardware call raises *)
NoFault == [pair |-> FALSE, nopair |-> FALSE, l |-> FALSE, r |-> FALSE]

----------------------------------------------------------------------------
VARIABLES
    program,                \* the script that runs: "lib" or "straight"
    is_setup_done,          \* motor_pair_lib global
    using_tank_mode,        \* motor_pair_lib global
    setupRuns,              \* executions of setup() past its guard
    setup_result,           \* what setup() last returned to test_motor_pair
    pc,                     \* position of the running invocation
    fn,                     \* function being run
    degrees,                \* argument of turn_right / turn_left
    distance_inches,        \* arguments of move_straight_with_gyro, move_*
    distance_time,
    speed,
    max_iterations,
    estimated_iterations,   \* locals of the invocation
    tank_mode,
    initial_yaw,
    target_yaw,
    current_yaw,
    steering,
    iterations,
    result,                 \* returned value ("none" until the return)
    exit,                   \* how the invocation ended
    left,                   \* speed in force on the left motor, 0 = stopped
    right,                  \* speed in force on the right motor
    via,                    \* actuation variant of the last speed command
    speedCmds,              \* speed commands that reached a motor
    corrections,            \* of which issued inside the straight loop
    stopOps,                \* runs of the stop operation
    stopCalls,              \* hardware stop calls attempted
    yawResets,              \* motion_sensor.reset_yaw calls
    samples,                \* yaw samples taken inside the loop
    broke,                  \* turn loop left through break
    inBand,                 \* every sample so far within 1 degree of initial_yaw
    active,                 \* invocations entered and not yet handed back
    wait,                   \* the wait the invocation is suspended in
    startup,                \* operations of the start-up phase, in order
    otherSteps,             \* steps taken by another task of the run loop
    tried,                  \* strategies attempted by move_forward / move_backward
    cur,                    \* latest call of a unit conversion and its results
    prev,                   \* the call before it
    test                    \* progress of test_movement

globals == <<program, is_setup_done, using_tank_mode, setupRuns,
             setup_result>>
args == <<degrees, distance_inches, distance_time, speed, max_iterations>>
locals == <<estimated_iterations, tank_mode, initial_yaw, target_yaw,
            current_yaw, steering, iterations>>
motors == <<left, right, via>>
counters == <<speedCmds, corrections, stopOps, stopCalls, yawResets,
              samples, broke, inBand>>
sched == <<active, otherSteps>>
conv == <<cur, prev>>
vars == <<globals, pc, fn, args, locals, result, exit, motors, counters,
          wait, startup, sched, tried, conv, test>>

----------------------------------------------------------------------------
(* Pure helpers *)

\* int(): truncation toward zero of a / b, b > 0
TruncDiv(a, b) == IF a >= 0 THEN a \div b ELSE -((-a) \div b)

Min(a, b) == IF a <= b THEN a ELSE b
Max(a, b) == IF a >= b THEN a ELSE b
Abs(a) == IF a >= 0 THEN a ELSE -a
Clamp(x, lo, hi) == Max(lo, Min(hi, x))

Sgn(a) == IF a > 0 THEN 1 ELSE IF a < 0 THEN -1 ELSE 0

\* int() of a floating-point quotient whose exact value is num / den, den > 0.
\* Floating-point arithmetic rounds every operation; the rounded quotient
\* differs from the exact one by far less than the distance of a
\* non-integral exact value to the next integer, so int() gives its
\* truncation.  When the exact value is a nonzero integer and an operation
\* on the way was inexact, the rounded quotient may land just inside it and
\* int() then gives one less in magnitude; whether it does depends on the
\* operands and on the float format of the build (down).
FloatInt(num, den, inexact, down) ==
    IF num % den = 0 /\ num # 0 /\ inexact /\ down
    THEN TruncDiv(num, den) - Sgn(num)
    ELSE TruncDiv(num, den)

\* The float formats of the builds: CPython doubles, and the single
\* precision of the hub's MicroPython.
FloatFormats == {"double", "single"}

\* The whole-valued results up to 200 degrees of turn that the operation
\* order of degrees_to_wheel_degrees rounds to just inside the integer, per
\* float format (evaluated with the source's expression).
LibRoundsDown(fl, t) ==
    Abs(t) \in (IF fl = "double" THEN {28, 56, 60, 112, 116, 120, 164}
                ELSE {188})

\* The same for the operation order of calculate_turn_degrees.
SquareRoundsDown(fl, angle) ==
    Abs(angle) \in (IF fl = "double"
                    THEN {44, 52, 60, 88, 92, 104, 108, 120, 164, 176, 184,
                          196}
                    ELSE {188})

\* The circumference counts up to 12 for which (k * (3.14159 * 2.0) /
\* (3.14159 * 2.0)) * 360 rounds to just inside 360 * k.
CircumferenceRoundsDown(fl, k) == fl = "double" /\ k \in {3, 6, 12}

\* variant: the magnitude of the distance only
InchesToDegrees_Magnitude(u, wd, inexact, down) ==
    Sgn(wd) * FloatInt(360 * Abs(u), PiE5 * Abs(wd), inexact, down)

\* variant: floor instead of truncation toward zero
InchesToDegrees_Floor(u, wd, inexact, down) ==
    Sgn(wd) * ((360 * u) \div (PiE5 * Abs(wd)))

\* inches_to_degrees: int((inches / (3.14159 * wheel_diameter)) * 360), the
\* distance u in 1/100000 inch, the diameter wd in inches, wd # 0
InchesToDegrees(u, wd, inexact, down) ==
    Sgn(wd) * FloatInt(360 * u, PiE5 * Abs(wd), inexact, down)

\* variant: floor instead of truncation toward zero
DegreesToWheelDegrees_Floor(t, fl) == (WheelBaseHalves * t) \div 4

\* degrees_to_wheel_degrees: wheel_travel = 4.5 * 3.14159 * t / 360, then
\* inches_to_degrees(wheel_travel); the exact value is 4.5 * t / 2.0
DegreesToWheelDegrees(t, fl) ==
    FloatInt(WheelBaseHalves * t, 4, TRUE, LibRoundsDown(fl, t))

\* calculate_turn_degrees of draw_square.py: arc_length = (angle / 360) *
\* PI * 4.5, then int((arc_length / (PI * 2.0)) * 360); same exact value,
\* other order of the operations
CalculateTurnDegrees(angle, fl) ==
    FloatInt(WheelBaseHalves * angle, 4, TRUE, SquareRoundsDown(fl, angle))


\* variant: a failed read gives a value other than 0
GetYawAngle_Sentinel(rd) == IF rd.ok THEN rd.v ELSE -1

\* get_yaw_angle: the sensor value, or 0 when the read raises
GetYawAngle(rd) == IF rd.ok THEN rd.v ELSE 0

\* variant: zero degrees accepted
InvalidDegrees_Strict(deg) == deg < 0

\* argument check of turn_right / turn_left
InvalidDegrees(deg) == deg <= 0

\* variants: cap not enforced; either bound keeps the loop going; the cap
\* ignored
TurnLoopCondition_Le(iters) == iters <= TurnMaxIterations
StraightLoopCondition_Or(iters, est, cap) == iters < est \/ iters < cap
StraightLoopCondition_EstimateOnly(iters, est, cap) == iters < est

\* loop conditions
TurnLoopCondition(iters) == iters < TurnMaxIterations
StraightLoopCondition(iters, est, cap) == iters < est /\ iters < cap

\* a returned Python bool
PyBool(b) == IF b THEN "True" ELSE "False"

\* variant: the timeout flag returned instead of its negation
TurnResult_Inverted(iters) == PyBool(iters >= TurnMaxIterations)

\* return value of turn_right / turn_left
TurnResult(iters) == PyBool(iters < TurnMaxIterations)

\* variant: timeout only past the cap
StraightResult_Gt(iters, cap) == PyBool(~(iters > cap))

\* return value of move_straight_with_gyro on the normal path
StraightResult(iters, cap) == PyBool(~(iters >= cap))

\* setup(): tank mode unless both pairing signatures raise
SetupTankMode(f) == ~f.pair \/ ~f.nopair

\* variant: setup() without its guard
Setup_Unguarded(done, tank, f) ==
    [tank |-> SetupTankMode(f), runs |-> 1, ret |-> SetupTankMode(f)]

\* setup(): True at once when already set up; else the unpair and pair
\* attempts, True in tank mode, False after the fallback to direct control
Setup(done, tank, f) ==
    IF done THEN [tank |-> tank, runs |-> 0, ret |-> TRUE]
    ELSE [tank |-> SetupTankMode(f), runs |-> 1, ret |-> SetupTankMode(f)]

\* The distances up to 15 inches and speeds up to 100 for which the product
\* distance * (15 * (30.0 / speed)) of a whole-valued estimate rounds to
\* just inside the integer, per float format (evaluated with the source's
\* expression).
EstimateRoundsDown(fl, d, s) ==
    IF fl = "double" THEN Abs(d) \in {7, 14} /\ s \in {7, 14, 28, 35, 70}
                     ELSE Abs(d) = 13 /\ s \in {13, 26}

\* variant: the estimate is not scaled by the speed
EstimatedIterations_Unscaled(d, s, fl) == d * IterationsPerInch

\* iterations_per_inch = 15 * (30.0 / speed); int(distance * that)
EstimatedIterations(d, s, fl) ==
    FloatInt(d * IterationsPerInch * ReferenceSpeed, s, TRUE,
             EstimateRoundsDown(fl, d, s))

\* variant: every sample is corrected
OutsideDeadband_Always(error) == TRUE

\* variant: an error equal to the deadband is corrected
OutsideDeadband_Ge(error) == Abs(error) >= Deadband

\* the test that guards a correction
OutsideDeadband(error) == Abs(error) > Deadband

\* variants of the steering term
Steering_Unclamped(error) == -TruncDiv(3 * error, 2)
Steering_Floor(error) ==
    Clamp(-((3 * error) \div 2), -MaxSteering, MaxSteering)
Steering_NoNegation(error) ==
    Clamp(TruncDiv(3 * error, 2), -MaxSteering, MaxSteering)

\* steering = -int(error * kp), kp = 1.5, clamped to [-100, 100]
Steering(error) == Clamp(-TruncDiv(3 * error, 2), -MaxSteering, MaxSteering)
\* variant: left speed not clamped
LeftSpeed_Unclamped(s, error) == s - Steering(error)

\* left_speed, right_speed of a correction: max(10, min(100, speed -+ steering))
LeftSpeed(s, error) == Clamp(s - Steering(error), MinSpeed, MaxSpeed)
RightSpeed(s, error) == Clamp(s + Steering(error), MinSpeed, MaxSpeed)

\* variant: the target wrapped into [-180, 180] like the sensor value
TargetYaw_Wrapped(f, iy, deg) ==
    LET t == IF f = "turn_right" THEN iy - deg ELSE iy + deg
    IN  IF t < -180 THEN t + 360 ELSE IF t > 180 THEN t - 360 ELSE t

\* target of a turn
TargetYaw(f, iy, deg) == IF f = "turn_right" THEN iy - deg ELSE iy + deg

\* variant: no allowance for a small error
StopCondition_NoThreshold(f, cy, ty) ==
    IF f = "turn_right" THEN cy <= ty ELSE cy >= ty

\* variant: strict comparisons
StopCondition_Strict(f, cy, ty) ==
    IF f = "turn_right" THEN cy < ty + StopThreshold
                        ELSE cy > ty - StopThreshold

\* break condition of the turn loops
StopCondition(f, cy, ty) ==
    IF f = "turn_right" THEN cy <= ty + StopThreshold
                        ELSE cy >= ty - StopThreshold

\* variant: right wheel always forward
TurnRightSpeed_Forward(f) == DEFAULT_SPEED

\* speeds that start a turn
TurnLeftSpeed(f) == IF f = "turn_right" THEN DEFAULT_SPEED ELSE -DEFAULT_SPEED
TurnRightSpeed(f) == IF f = "turn_right" THEN -DEFAULT_SPEED ELSE DEFAULT_SPEED

\* variant: move_backward commands the forward speed
MoveSpeed_Forward(f) == DEFAULT_SPEED

\* speed of both wheels in move_forward / move_backward
MoveSpeed(f) == IF f = "move_forward" THEN DEFAULT_SPEED ELSE -DEFAULT_SPEED

\* variant: run_for_degrees is not tried after move_for_degrees raised
DegreesRun_PairOnly(tank, f) == IF tank THEN ~f.pair ELSE ~f.l /\ ~f.r

\* a run-for-degrees strategy is accepted: motor_pair.move_for_degrees in
\* tank mode, else motor.run_for_degrees on both ports
DegreesRun(tank, f) == (tank /\ ~f.pair) \/ (~f.l /\ ~f.r)

\* variant: no default distance
DefaultDistance_None(d, t) == d

\* "Default to 1 inch if both parameters are 0"
DefaultDistance(d, t) == IF d = 0 /\ t = 0 THEN 1 ELSE d

\* the strategies of the distance path in the order they are attempted:
\* move_for_degrees only in tank mode, run_for_degrees after it raised (or
\* first, in direct mode), the timed run after run_for_degrees raised
StrategiesTried(tank, f) ==
    (IF tank THEN <<"move_for_degrees">> ELSE <<>>)
        \o (IF tank /\ ~f.pair THEN <<>>
            ELSE <<"run_for_degrees">>
                    \o (IF ~f.l /\ ~f.r THEN <<>> ELSE <<"timed">>))

\* variant: the time taken as milliseconds
MoveWaitMs_NotScaled(d, t) ==
    IF d > 0 THEN TruncDiv(d * 100000, 8 * DEFAULT_SPEED) ELSE t

\* ms_to_wait of the timed movement: int(distance / (8.0 * 0.3) * 1000) for
\* a distance, int(distance_time * 1000) for a time
MoveWaitMs(d, t) ==
    IF d > 0 THEN TruncDiv(d * 100000, 8 * DEFAULT_SPEED) ELSE t * 1000

\* no conversion has been called
NoCall == [kind |-> "none", fl |-> "none", x |-> 0, wd |-> 0, lib |-> 0,
           straight |-> 0, square |-> 0, raised |-> FALSE]

\* the invocation is not suspended
NoWait == [kind |-> "none", ms |-> 0]

\* variant: a stabilization wait as short as the loop wait
StabilizeWait_Short == [kind |-> "await", ms |-> 20]

\* await runloop.sleep_ms(100) after reset_yaw
StabilizeWait == [kind |-> "await", ms |-> 100]

\* variant: the loop waits with time.sleep_ms, which does not yield
LoopWait_Blocking == [kind |-> "sleep", ms |-> 20]

\* await runloop.sleep_ms(20) at the end of a loop pass
LoopWait == [kind |-> "await", ms |-> 20]

\* entries of the start-up log
Op(o) == [op |-> o, ms |-> 0]
Waited(w) == [op |-> "wait:" \o w.kind, ms |-> w.ms]

----------------------------------------------------------------------------
(* Hardware call ladders.  Each yields the motor state after the calls,
   whether an exception escaped, the variant used and the number of
   commands that reached a motor. *)

\* motor.run(LEFT, l); motor.run(RIGHT, r)
DirectRun(l, r, f, curL, curR) ==
    IF f.l THEN [left |-> curL, right |-> curR, raised |-> TRUE,
                 via |-> "none", cmds |-> 0]
    ELSE IF f.r THEN [left |-> l, right |-> curR, raised |-> TRUE,
                      via |-> "direct", cmds |-> 1]
    ELSE [left |-> l, right |-> r, raised |-> FALSE,
          via |-> "direct", cmds |-> 1]

\* move_tank(PAIR, l, r), else move_tank(l, r), else direct
TankLadder(l, r, f, curL, curR) ==
    IF ~f.pair THEN [left |-> l, right |-> r, raised |-> FALSE,
                     via |-> "tank_pair", cmds |-> 1]
    ELSE IF ~f.nopair THEN [left |-> l, right |-> r, raised |-> FALSE,
                            via |-> "tank", cmds |-> 1]
    ELSE DirectRun(l, r, f, curL, curR)

\* start of a turn
StartTurn(tank, l, r, f, curL, curR) ==
    IF tank THEN TankLadder(l, r, f, curL, curR)
            ELSE DirectRun(l, r, f, curL, curR)

\* correction inside the straight loop
ApplyCorrection(tank, l, r, f, curL, curR) ==
    IF tank /\ ~f.pair THEN [left |-> l, right |-> r, raised |-> FALSE,
                             via |-> "tank_pair", cmds |-> 1]
    ELSE DirectRun(l, r, f, curL, curR)

\* motor.stop(LEFT); motor.stop(RIGHT)
DirectStop(f, curL, curR) ==
    IF f.l THEN [left |-> curL, right |-> curR, raised |-> TRUE, calls |-> 1]
    ELSE IF f.r THEN [left |-> 0, right |-> curR, raised |-> TRUE, calls |-> 2]
    ELSE [left |-> 0, right |-> 0, raised |-> FALSE, calls |-> 2]

\* stop_motors() of motor_pair_lib
StopMotors(tank, f, curL, curR) ==
    IF tank THEN
        IF ~f.pair THEN [left |-> 0, right |-> 0, raised |-> FALSE, calls |-> 1]
        ELSE IF ~f.nopair THEN [left |-> 0, right |-> 0, raised |-> FALSE,
                                calls |-> 2]
        ELSE LET d == DirectStop(f, curL, curR)
             IN  [d EXCEPT !.calls = d.calls + 2]
    ELSE DirectStop(f, curL, curR)

\* the except-handler stop of move_straight_with_gyro; never raises
HandlerStop(g, curL, curR) ==
    [DirectStop(g, curL, curR) EXCEPT !.raised = FALSE]

\* the stop block that follows the loop of move_straight_with_gyro
StraightStop(tank, f, g, curL, curR) ==
    LET first == IF tank
                 THEN IF ~f.pair
                      THEN [left |-> 0, right |-> 0, raised |-> FALSE,
                            calls |-> 1]
                      ELSE [left |-> curL, right |-> curR, raised |-> TRUE,
                            calls |-> 1]
                 ELSE DirectStop(f, curL, curR)
    IN  IF ~first.raised THEN first
        ELSE LET second == DirectStop(g, first.left, first.right)
             IN  [second EXCEPT !.raised = FALSE,
                                !.calls = first.calls + second.calls]

----------------------------------------------------------------------------
(* test_movement of motor_pair_straight.py: the tests in the order of the
   code, with the distance and the safety limit each passes on *)
TestPlan == <<"simple 3 in", "gyro 3 in", "gyro 6 in", "gyro 10 in">>

TestInches(name) ==
    CASE name = "simple 3 in" -> 3
      [] name = "gyro 3 in" -> 3
      [] name = "gyro 6 in" -> 6
      [] name = "gyro 10 in" -> 10

TestCap(name) ==
    CASE name = "gyro 3 in" -> 250
      [] name = "gyro 6 in" -> 400
      [] name = "gyro 10 in" -> 600

\* variant: no test ends test_movement on failure
TestGates_None(name) == FALSE

\* the tests whose failure branch is a return
TestGates(name) == name \in {"simple 3 in", "gyro 3 in", "gyro 6 in"}

\* position of a test in the plan
TestIndex(name) == CHOOSE i \in DOMAIN TestPlan : TestPlan[i] = name

\* test_movement has not been called
NotStarted == [pos |-> "none", ran |-> <<>>, outcomes |-> <<>>,
               cleanup |-> FALSE, summary |-> FALSE]

\* move_straight_simple: run_for_degrees on the left, then on the right
MoveStraightSimple(hw) == ~hw.l /\ ~hw.r

(* what test_movement does with the result of the test at t.pos: return,
   go on to the next test after a one-second wait, or, after the last
   test, stop both motors and print the summary *)
AfterTest(t, ok) ==
    LET u == [t EXCEPT !.outcomes = Append(@, PyBool(ok))]
    IN  IF ~ok /\ TestGates(t.pos)
        THEN [u EXCEPT !.pos = "returned"]
        ELSE IF TestIndex(t.pos) < Len(TestPlan)
        THEN [u EXCEPT !.pos = TestPlan[TestIndex(t.pos) + 1]]
        ELSE [u EXCEPT !.pos = "done", !.cleanup = TRUE, !.summary = TRUE]

----------------------------------------------------------------------------
Init ==
    /\ program \in {"lib", "straight"}
    /\ is_setup_done = FALSE
    /\ using_tank_mode = TRUE
    /\ setupRuns = 0
    /\ setup_result = "none"
    /\ pc = "idle"
    /\ fn = "none"
    /\ degrees = 0
    /\ distance_inches = 0
    /\ distance_time = 0
    /\ speed = 0
    /\ max_iterations = 0
    /\ estimated_iterations = 0
    /\ tank_mode = TRUE
    /\ initial_yaw = 0
    /\ target_yaw = 0
    /\ current_yaw = 0
    /\ iterations = 0
    /\ result = "none"
    /\ exit = "none"
    /\ left = 0
    /\ right = 0
    /\ via = "none"
    /\ speedCmds = 0
    /\ corrections = 0
    /\ stopOps = 0
    /\ stopCalls = 0
    /\ yawResets = 0
    /\ samples = 0
    /\ broke = FALSE
    /\ steering = 0
    /\ inBand = TRUE
    /\ active = 0
    /\ wait = NoWait
    /\ startup = <<>>
    /\ otherSteps = 0
    /\ tried = <<>>
    /\ cur = NoCall
    /\ prev = NoCall
    /\ test = NotStarted

\* a fresh invocation: Loop State is created at the call
FreshLocals ==
    /\ tank_mode' = TRUE
    /\ initial_yaw' = 0
    /\ target_yaw' = 0
    /\ current_yaw' = 0
    /\ steering' = 0
    /\ iterations' = 0

FreshCounters ==
    /\ speedCmds' = 0
    /\ corrections' = 0
    /\ stopOps' = 0
    /\ stopCalls' = 0
    /\ samples' = 0
    /\ broke' = FALSE
    /\ inBand' = TRUE
    /\ via' = "none"
    /\ tried' = <<>>

----------------------------------------------------------------------------
(* the caller: test_motor_pair, test_movement *)

\* variant: a controller is called while another is inside its loop
CallerReady_NoAwait == pc \in {"idle", "loop"}

\* every call is awaited before the next statement of the caller runs
CallerReady == pc = "idle"

----------------------------------------------------------------------------
(* turn_right / turn_left of motor_pair_lib.py *)

\* entry: setup() if needed, argument check, reset_yaw, then the 100 ms wait
TurnCall(f, deg, hw) ==
    /\ UNCHANGED <<conv, test>>
    /\ program = "lib"
    /\ CallerReady
    /\ fn' = f
    /\ degrees' = deg
    /\ UNCHANGED <<program, distance_inches, distance_time, speed,
                   max_iterations, estimated_iterations>>
    /\ is_setup_done' = TRUE
    /\ using_tank_mode' = Setup(is_setup_done, using_tank_mode, hw).tank
    /\ setupRuns' = setupRuns + Setup(is_setup_done, using_tank_mode, hw).runs
    /\ UNCHANGED setup_result
    /\ FreshLocals
    /\ FreshCounters
    /\ UNCHANGED <<left, right, otherSteps>>
    /\ active' = active + 1
    /\ IF InvalidDegrees(deg)
       THEN /\ pc' = "returned"
            /\ result' = PyBool(FALSE)
            /\ exit' = "invalid"
            /\ yawResets' = 0
            /\ startup' = <<>>
            /\ wait' = NoWait
       ELSE /\ pc' = "stabilize"
            /\ result' = "none"
            /\ exit' = "none"
            /\ yawResets' = 1
            /\ startup' = <<Op("reset_yaw")>>
            /\ wait' = StabilizeWait

\* test_motor_pair calls setup() itself and prints what it returned
SetupCall(hw) ==
    /\ program = "lib"
    /\ CallerReady
    /\ LET s == Setup(is_setup_done, using_tank_mode, hw)
       IN  /\ is_setup_done' = TRUE
           /\ using_tank_mode' = s.tank
           /\ setupRuns' = setupRuns + s.runs
           /\ setup_result' = PyBool(s.ret)
    /\ UNCHANGED <<program, pc, fn, args, locals, result, exit, motors,
                   counters, wait, startup, sched, tried, conv,
                   test>>

\* after the wait: initial_yaw, target_yaw, start the motors
TurnStart(rd, hw) ==
    /\ UNCHANGED <<conv, tried, test>>
    /\ pc = "stabilize"
    /\ fn \in Turns
    /\ LET iy == GetYawAngle(rd)
           s == StartTurn(using_tank_mode, TurnLeftSpeed(fn),
                          TurnRightSpeed(fn), hw, left, right)
       IN  /\ initial_yaw' = iy
           /\ target_yaw' = TargetYaw(fn, iy, degrees)
           /\ left' = s.left
           /\ right' = s.right
           /\ via' = s.via
           /\ speedCmds' = speedCmds + s.cmds
           /\ IF s.raised
              THEN /\ pc' = "raised"
                   /\ exit' = "uncaught"
              ELSE /\ pc' = "loop"
                   /\ exit' = exit
    /\ wait' = NoWait
    /\ startup' = startup \o <<Waited(wait), Op("initial_yaw"), Op("speed")>>
    /\ UNCHANGED <<globals, fn, args, estimated_iterations, tank_mode,
                   current_yaw, steering, iterations, result, corrections,
                   stopOps, stopCalls, yawResets, samples, broke, inBand,
                   sched>>

\* one pass of the polling loop: sample, test, count, wait 20 ms
TurnPoll(rd) ==
    /\ UNCHANGED <<conv, tried, test>>
    /\ pc = "loop"
    /\ fn \in Turns
    /\ TurnLoopCondition(iterations)
    /\ LET cy == GetYawAngle(rd)
       IN  /\ current_yaw' = cy
           /\ samples' = samples + 1
           /\ IF StopCondition(fn, cy, target_yaw)
              THEN /\ broke' = TRUE
                   /\ pc' = "stopping"
                   /\ iterations' = iterations
                   /\ wait' = NoWait
              ELSE /\ broke' = broke
                   /\ pc' = "loop"
                   /\ iterations' = iterations + 1
                   /\ wait' = LoopWait
    /\ UNCHANGED <<globals, fn, args, estimated_iterations, tank_mode,
                   initial_yaw, target_yaw, steering, result, exit, motors,
                   speedCmds, corrections, stopOps, stopCalls, yawResets,
                   inBand, startup, sched>>

\* the loop condition fails at the safety limit
TurnCap ==
    /\ UNCHANGED <<conv, tried, test>>
    /\ pc = "loop"
    /\ fn \in Turns
    /\ ~TurnLoopCondition(iterations)
    /\ pc' = "stopping"
    /\ wait' = NoWait
    /\ UNCHANGED <<globals, fn, args, locals, result, exit, motors, counters,
                   startup, sched>>

\* stop_motors(), final yaw, return
TurnStop(hw) ==
    /\ UNCHANGED <<conv, tried, test>>
    /\ pc = "stopping"
    /\ fn \in Turns
    /\ LET s == StopMotors(using_tank_mode, hw, left, right)
       IN  /\ left' = s.left
           /\ right' = s.right
           /\ stopOps' = stopOps + 1
           /\ stopCalls' = stopCalls + s.calls
           /\ IF s.raised
              THEN /\ pc' = "raised"
                   /\ exit' = "uncaught"
                   /\ result' = result
              ELSE /\ pc' = "returned"
                   /\ exit' = "normal"
                   /\ result' = TurnResult(iterations)
    /\ UNCHANGED <<globals, fn, args, locals, via, speedCmds, corrections,
                   yawResets, samples, broke, inBand, wait, startup, sched>>

----------------------------------------------------------------------------
(* move_forward / move_backward of motor_pair_lib.py *)

\* entry: setup() if needed, default distance, then the strategy chosen by
\* the arguments, up to the timed wait or the return.  hw: which of the
\* run-for-degrees calls raise; hw2: which calls of the start ladder raise.
MoveEntry(f, tank, d, t, hw, hw2, g, curL, curR) ==
    LET dist == DefaultDistance(d, t)
        s == StartTurn(tank, MoveSpeed(f), MoveSpeed(f), hw2, curL, curR)
        h == StopMotors(tank, g, s.left, s.right)
        base == [dist |-> dist,
                 target |-> IF dist > 0
                            THEN InchesToDegrees(dist * UnitsPerInch,
                                                 WHEEL_DIAMETER, FALSE, FALSE)
                            ELSE 0,
                 tried |-> IF dist > 0 THEN StrategiesTried(tank, hw)
                           ELSE IF t > 0 THEN <<"time">>
                           ELSE <<>>,
                 pc |-> "returned", result |-> "none", exit |-> "none",
                 wait |-> NoWait, via |-> "none",
                 left |-> curL, right |-> curR,
                 speedCmds |-> 0, stopOps |-> 0, stopCalls |-> 0]
    IN  IF dist > 0 /\ DegreesRun(tank, hw)
        THEN \* a run-for-degrees call was accepted
             [base EXCEPT !.result = PyBool(TRUE), !.exit = "degrees",
                          !.via = "degrees"]
        ELSE IF dist > 0 \/ t > 0
        THEN \* timed movement: start ladder, then the wait
             IF ~s.raised
             THEN [base EXCEPT !.pc = "timed", !.via = s.via,
                               !.speedCmds = s.cmds,
                               !.wait = [kind |-> "await",
                                         ms |-> MoveWaitMs(dist, t)],
                               !.left = s.left, !.right = s.right]
             ELSE IF dist > 0
             THEN \* except handler of the fallback: stop_motors()
                  [base EXCEPT !.via = s.via, !.speedCmds = s.cmds,
                               !.left = h.left, !.right = h.right,
                               !.stopOps = 1, !.stopCalls = h.calls,
                               !.pc = IF h.raised THEN "raised"
                                                  ELSE "returned",
                               !.result = IF h.raised THEN "none"
                                                      ELSE PyBool(FALSE),
                               !.exit = IF h.raised THEN "uncaught"
                                                    ELSE "handler"]
             ELSE \* time mode: the raise of the start ladder is not caught
                  [base EXCEPT !.via = s.via, !.speedCmds = s.cmds,
                               !.left = s.left, !.right = s.right,
                               !.pc = "raised", !.exit = "uncaught"]
        ELSE \* neither a distance nor a time
             [base EXCEPT !.result = PyBool(FALSE), !.exit = "invalid"]

\* the call of move_forward / move_backward up to its first wait or its end
MoveCall(f, d, t, hw, hw2) ==
    /\ UNCHANGED <<conv, test>>
    /\ program = "lib"
    /\ CallerReady
    /\ fn' = f
    /\ is_setup_done' = TRUE
    /\ using_tank_mode' = Setup(is_setup_done, using_tank_mode, hw).tank
    /\ setupRuns' = setupRuns + Setup(is_setup_done, using_tank_mode, hw).runs
    /\ UNCHANGED setup_result
    /\ FreshLocals
    /\ UNCHANGED <<program, degrees, speed, max_iterations,
                   estimated_iterations, otherSteps>>
    /\ active' = active + 1
    /\ yawResets' = 0
    /\ startup' = <<>>
    /\ corrections' = 0
    /\ samples' = 0
    /\ broke' = FALSE
    /\ inBand' = TRUE
    /\ distance_time' = t
    /\ \E g \in Faults :
          LET o == MoveEntry(f, using_tank_mode', d, t, hw, hw2, g, left,
                             right)
          IN  /\ distance_inches' = o.dist
              /\ tried' = o.tried
              /\ pc' = o.pc
              /\ result' = o.result
              /\ exit' = o.exit
              /\ wait' = o.wait
              /\ via' = o.via
              /\ left' = o.left
              /\ right' = o.right
              /\ speedCmds' = o.speedCmds
              /\ stopOps' = o.stopOps
              /\ stopCalls' = o.stopCalls

\* after the timed wait: stop_motors(), return True
MoveStop(hw) ==
    /\ UNCHANGED <<conv, tried, test>>
    /\ pc = "timed"
    /\ fn \in Moves
    /\ wait' = NoWait
    /\ LET s == StopMotors(using_tank_mode, hw, left, right)
       IN  IF ~s.raised
           THEN /\ left' = s.left
                /\ right' = s.right
                /\ stopOps' = stopOps + 1
                /\ stopCalls' = stopCalls + s.calls
                /\ pc' = "returned"
                /\ result' = PyBool(TRUE)
                /\ exit' = "normal"
           ELSE IF distance_inches > 0
           THEN \* except handler of the fallback: stop_motors() again
                \E g \in Faults :
                  LET h == StopMotors(using_tank_mode, g, s.left, s.right)
                  IN  /\ left' = h.left
                      /\ right' = h.right
                      /\ stopOps' = stopOps + 2
                      /\ stopCalls' = stopCalls + s.calls + h.calls
                      /\ IF h.raised
                         THEN /\ pc' = "raised"
                              /\ result' = result
                              /\ exit' = "uncaught"
                         ELSE /\ pc' = "returned"
                              /\ result' = PyBool(FALSE)
                              /\ exit' = "handler"
           ELSE /\ left' = s.left
                /\ right' = s.right
                /\ stopOps' = stopOps + 1
                /\ stopCalls' = stopCalls + s.calls
                /\ pc' = "raised"
                /\ result' = result
                /\ exit' = "uncaught"
    /\ UNCHANGED <<globals, fn, args, locals, via, speedCmds, corrections,
                   yawResets, samples, broke, inBand, startup, sched>>

----------------------------------------------------------------------------
(* move_straight_with_gyro of motor_pair_straight.py *)

\* the except handler: stop both motors, return False
Handler(curL, curR) ==
    \E g \in Faults :
        LET h == HandlerStop(g, curL, curR)
        IN  /\ left' = h.left
            /\ right' = h.right
            /\ stopOps' = stopOps + 1
            /\ stopCalls' = stopCalls + h.calls
            /\ pc' = "returned"
            /\ result' = PyBool(FALSE)
            /\ exit' = "handler"

\* entry: iteration estimate, reset_yaw, then the 100 ms wait
StraightEntry(d, s, m) ==
    /\ UNCHANGED conv
    /\ program = "straight"
    /\ CallerReady
    /\ fn' = "straight"
    /\ distance_inches' = d
    /\ speed' = s
    /\ max_iterations' = m
    /\ UNCHANGED <<degrees, distance_time>>
    /\ FreshLocals
    /\ FreshCounters
    /\ result' = "none"
    /\ UNCHANGED <<globals, left, right, otherSteps>>
    /\ active' = active + 1
    /\ IF s = 0
       THEN \* 30.0 / speed raises ZeroDivisionError
            /\ estimated_iterations' = 0
            /\ pc' = "raised"
            /\ exit' = "uncaught"
            /\ yawResets' = 0
            /\ startup' = <<>>
            /\ wait' = NoWait
       ELSE /\ \E fl \in FloatFormats :
                  estimated_iterations' = EstimatedIterations(d, s, fl)
            /\ pc' = "stabilize"
            /\ exit' = "none"
            /\ yawResets' = 1
            /\ startup' = <<Op("reset_yaw")>>
            /\ wait' = StabilizeWait

\* move_straight_with_gyro called by a caller other than test_movement
StraightCall(d, s, m) ==
    /\ StraightEntry(d, s, m)
    /\ UNCHANGED test

\* after the wait: initial_yaw, start both motors forward
StraightStart(rd, hw) ==
    /\ UNCHANGED <<conv, tried, test>>
    /\ pc = "stabilize"
    /\ fn = "straight"
    /\ initial_yaw' = GetYawAngle(rd)
    /\ LET s == TankLadder(speed, speed, hw, left, right)
       IN  /\ tank_mode' = (s.via # "direct" /\ ~s.raised)
           /\ via' = s.via
           /\ speedCmds' = speedCmds + s.cmds
           /\ IF s.raised
              THEN Handler(s.left, s.right)
              ELSE /\ left' = s.left
                   /\ right' = s.right
                   /\ pc' = "loop"
                   /\ UNCHANGED <<stopOps, stopCalls, result, exit>>
    /\ wait' = NoWait
    /\ startup' = startup \o <<Waited(wait), Op("initial_yaw"), Op("speed")>>
    /\ UNCHANGED <<globals, fn, args, estimated_iterations, target_yaw,
                   current_yaw, steering, iterations, corrections, yawResets,
                   samples, broke, inBand, sched>>

\* one pass of the sampling loop: count, sample, correct, wait 20 ms
StraightStep(rd) ==
    /\ UNCHANGED <<conv, tried, test>>
    /\ pc = "loop"
    /\ fn = "straight"
    /\ StraightLoopCondition(iterations, estimated_iterations, max_iterations)
    /\ iterations' = iterations + 1
    /\ samples' = samples + 1
    /\ LET cy == GetYawAngle(rd)
           error == cy - initial_yaw
       IN  /\ current_yaw' = cy
           /\ inBand' = (inBand /\ Abs(error) <= 1)
           /\ steering' = IF OutsideDeadband(error) THEN Steering(error)
                                                    ELSE 0
           /\ IF OutsideDeadband(error)
              THEN \E hw \in Faults :
                     LET c == ApplyCorrection(tank_mode,
                                              LeftSpeed(speed, error),
                                              RightSpeed(speed, error),
                                              hw, left, right)
                     IN  /\ speedCmds' = speedCmds + c.cmds
                         /\ corrections' = corrections + c.cmds
                         /\ via' = IF c.cmds > 0 THEN c.via ELSE via
                         /\ IF c.raised
                            THEN /\ Handler(c.left, c.right)
                                 /\ wait' = NoWait
                            ELSE /\ left' = c.left
                                 /\ right' = c.right
                                 /\ pc' = "loop"
                                 /\ wait' = LoopWait
                                 /\ UNCHANGED <<stopOps, stopCalls, result,
                                                exit>>
              ELSE /\ pc' = "loop"
                   /\ wait' = LoopWait
                   /\ UNCHANGED <<motors, speedCmds, corrections, stopOps,
                                  stopCalls, result, exit>>
    /\ UNCHANGED <<globals, fn, args, estimated_iterations, tank_mode,
                   initial_yaw, target_yaw, yawResets, broke, startup, sched>>

\* the loop condition fails: estimate or safety limit reached
StraightExit ==
    /\ UNCHANGED <<conv, tried, test>>
    /\ pc = "loop"
    /\ fn = "straight"
    /\ ~StraightLoopCondition(iterations, estimated_iterations, max_iterations)
    /\ pc' = "stopping"
    /\ wait' = NoWait
    /\ UNCHANGED <<globals, fn, args, locals, result, exit, motors, counters,
                   startup, sched>>

\* stop block, final yaw, return not timeout
StraightFinish(hw, g) ==
    /\ UNCHANGED <<conv, tried, test>>
    /\ pc = "stopping"
    /\ fn = "straight"
    /\ LET s == StraightStop(tank_mode, hw, g, left, right)
       IN  /\ left' = s.left
           /\ right' = s.right
           /\ stopOps' = stopOps + 1
           /\ stopCalls' = stopCalls + s.calls
    /\ result' = StraightResult(iterations, max_iterations)
    /\ exit' = "normal"
    /\ pc' = "returned"
    /\ UNCHANGED <<globals, fn, args, locals, via, speedCmds, corrections,
                   yawResets, samples, broke, inBand, wait, startup, sched>>

----------------------------------------------------------------------------
(* the caller takes the result; the Loop State is discarded *)
Discard ==
    /\ UNCHANGED conv
    /\ pc = "returned"
    /\ pc' = "idle"
    /\ fn' = "none"
    /\ degrees' = 0
    /\ distance_inches' = 0
    /\ distance_time' = 0
    /\ speed' = 0
    /\ max_iterations' = 0
    /\ estimated_iterations' = 0
    /\ FreshLocals
    /\ FreshCounters
    /\ yawResets' = 0
    /\ result' = "none"
    /\ exit' = "none"
    /\ active' = active - 1
    /\ wait' = NoWait
    /\ startup' = <<>>
    /\ UNCHANGED <<globals, otherSteps>>

Return ==
    /\ Discard
    /\ UNCHANGED <<left, right, test>>

Next ==
    \/ \E f \in Turns, deg \in DegreeArgs, hw \in Faults : TurnCall(f, deg, hw)
    \/ \E rd \in YawReads(InitialYaws), hw \in Faults : TurnStart(rd, hw)
    \/ \E rd \in YawReads(YawSet) : TurnPoll(rd)
    \/ TurnCap
    \/ \E hw \in Faults : TurnStop(hw)
    \/ \E f \in Moves, d \in MoveDistances, t \in MoveTimes,
          hw \in Faults, hw2 \in Faults : MoveCall(f, d, t, hw, hw2)
    \/ \E hw \in Faults : MoveStop(hw)
    \/ \E d \in DistanceArgs, s \in SpeedArgs, m \in CapArgs : StraightCall(d, s, m)
    \/ \E rd \in YawReads(InitialYaws), hw \in Faults : StraightStart(rd, hw)
    \/ \E rd \in YawReads(YawSet) : StraightStep(rd)
    \/ StraightExit
    \/ \E hw \in Faults, g \in Faults : StraightFinish(hw, g)
    \/ Return

Spec == Init /\ [][Next]_vars

(* The unit conversions, called one after the other on bounded inputs.  The
   three distance conversions are the same expression and round alike. *)

DistanceCall(kind, fl, u, inexact, down) ==
    LET r == InchesToDegrees(u, WHEEL_DIAMETER, inexact, down)
    IN  [kind |-> kind, fl |-> fl, x |-> u, wd |-> WHEEL_DIAMETER, lib |-> r,
         straight |-> r, square |-> r, raised |-> FALSE]

\* inches_to_degrees / calculate_distance_degrees of a distance
ConvertDistance(u, fl) ==
    /\ prev' = cur
    /\ cur' = DistanceCall("distance", fl, u, FALSE, FALSE)
    /\ UNCHANGED <<globals, pc, fn, args, locals, result, exit, motors,
                   counters, wait, startup, sched, tried, test>>

\* the same of k wheel circumferences, k * (3.14159 * 2.0)
ConvertCircumferences(k, fl) ==
    /\ prev' = cur
    /\ cur' = DistanceCall("circumferences", fl, k * 2 * PiE5, TRUE,
                           CircumferenceRoundsDown(fl, k))
    /\ UNCHANGED <<globals, pc, fn, args, locals, result, exit, motors,
                   counters, wait, startup, sched, tried, test>>

\* inches_to_degrees(inches, wheel_diameter) of motor_pair_straight.py
ConvertWithDiameter(u, wd, fl) ==
    /\ prev' = cur
    /\ cur' = IF wd = 0
              THEN \* inches / 0.0 raises ZeroDivisionError
                   [kind |-> "diameter", fl |-> fl, x |-> u, wd |-> wd,
                    lib |-> 0, straight |-> 0, square |-> 0,
                    raised |-> TRUE]
              ELSE [kind |-> "diameter", fl |-> fl, x |-> u, wd |-> wd,
                    lib |-> 0,
                    straight |-> InchesToDegrees(u, wd, FALSE, FALSE),
                    square |-> 0, raised |-> FALSE]
    /\ UNCHANGED <<globals, pc, fn, args, locals, result, exit, motors,
                   counters, wait, startup, sched, tried, test>>

\* degrees_to_wheel_degrees and calculate_turn_degrees of a turn angle
ConvertTurn(t, fl) ==
    /\ prev' = cur
    /\ cur' = [kind |-> "turn", fl |-> fl, x |-> t, wd |-> WHEEL_DIAMETER,
               lib |-> DegreesToWheelDegrees(t, fl), straight |-> 0,
               square |-> CalculateTurnDegrees(t, fl),
               raised |-> FALSE]
    /\ UNCHANGED <<globals, pc, fn, args, locals, result, exit, motors,
                   counters, wait, startup, sched, tried, test>>

ConvNext ==
    \/ \E u \in DistanceInputs, fl \in FloatFormats : ConvertDistance(u, fl)
    \/ \E k \in CircumferenceCounts, fl \in FloatFormats :
          ConvertCircumferences(k, fl)
    \/ \E u \in DiameterInputs, wd \in Diameters, fl \in FloatFormats :
          ConvertWithDiameter(u, wd, fl)
    \/ \E t \in TurnAngles, fl \in FloatFormats : ConvertTurn(t, fl)

ConvSpec == Init /\ [][ConvNext]_vars

(* The run loop with a second task.  While the controller is suspended in
   an awaited wait the run loop may run the other task, which may also
   cancel the controller: the cancellation is raised inside the controller
   at the await it is suspended in. *)

\* a step of the other task
OtherStep ==
    /\ UNCHANGED <<conv, tried, test>>
    /\ wait.kind = "await"
    /\ otherSteps' = 1 - otherSteps
    /\ UNCHANGED <<globals, pc, fn, args, locals, result, exit, motors,
                   counters, wait, startup, active>>

\* cancellation delivered at the wait that ends a loop pass.  The loops of
\* turn_right and turn_left are not inside a try statement.  The loop of
\* move_straight_with_gyro is inside try ... except Exception, which sees
\* the cancellation only if its exception class derives from Exception.
Cancel(caught) ==
    /\ UNCHANGED <<conv, tried, test>>
    /\ pc = "loop"
    /\ wait = LoopWait
    /\ wait' = NoWait
    /\ exit' = "cancelled"
    /\ IF fn = "straight" /\ caught
       THEN \E g \in Faults :
              LET h == HandlerStop(g, left, right)
              IN  /\ left' = h.left
                  /\ right' = h.right
                  /\ stopOps' = stopOps + 1
                  /\ stopCalls' = stopCalls + h.calls
                  /\ pc' = "returned"
                  /\ result' = PyBool(FALSE)
       ELSE /\ pc' = "cancelled"
            /\ UNCHANGED <<left, right, stopOps, stopCalls, result>>
    /\ UNCHANGED <<globals, fn, args, locals, via, speedCmds, corrections,
                   yawResets, samples, broke, inBand, startup, sched>>

\* a pass of the turn loop, followed for at most MaxTaskPasses passes
TaskTurnPoll(rd) ==
    /\ iterations < MaxTaskPasses
    /\ TurnPoll(rd)

\* the controllers as in Next, the straight drive called with one speed
TaskNext ==
    \/ \E f \in Turns, deg \in DegreeArgs, hw \in Faults : TurnCall(f, deg, hw)
    \/ \E rd \in YawReads(InitialYaws), hw \in Faults : TurnStart(rd, hw)
    \/ \E rd \in YawReads(YawSet) : TaskTurnPoll(rd)
    \/ \E hw \in Faults : TurnStop(hw)
    \/ \E f \in Moves, d \in MoveDistances, t \in MoveTimes,
          hw \in Faults, hw2 \in Faults : MoveCall(f, d, t, hw, hw2)
    \/ \E hw \in Faults : MoveStop(hw)
    \/ \E d \in DistanceArgs, m \in CapArgs : StraightCall(d, 60, m)
    \/ \E rd \in YawReads(InitialYaws), hw \in Faults : StraightStart(rd, hw)
    \/ \E rd \in YawReads(YawSet) : StraightStep(rd)
    \/ StraightExit
    \/ \E hw \in Faults, g \in Faults : StraightFinish(hw, g)
    \/ Return
    \/ OtherStep
    \/ \E caught \in BOOLEAN : Cancel(caught)

TaskSpec == Init /\ [][TaskNext]_vars

(* move_straight_with_gyro alone, over yaw errors and speeds wide enough to
   reach the clamps of the steering term and of the wheel speeds *)
SteerNext ==
    \/ \E s \in SteerSpeeds : StraightCall(1, s, SteerCap)
    \/ \E rd \in YawReads({0}), hw \in Faults : StraightStart(rd, hw)
    \/ \E rd \in YawReads(WideYaw) : StraightStep(rd)
    \/ StraightExit
    \/ \E hw \in Faults, g \in Faults : StraightFinish(hw, g)
    \/ Return

SteerSpec == Init /\ [][SteerNext]_vars

(* test_movement: the sensor check and setup_motor_pair gate nothing, then
   move_straight_simple(3) runs to its return without a wait *)
TestSimple(hw, g) ==
    /\ program = "straight"
    /\ CallerReady
    /\ test = NotStarted
    /\ LET started == [test EXCEPT !.pos = TestPlan[1],
                                   !.ran = Append(@, TestPlan[1])]
           ok == MoveStraightSimple(hw)
           h == HandlerStop(g, left, right)
       IN  /\ test' = AfterTest(started, ok)
           /\ left' = IF ok THEN left ELSE h.left
           /\ right' = IF ok THEN right ELSE h.right
    /\ UNCHANGED <<globals, pc, fn, args, locals, result, exit, via,
                   counters, wait, startup, sched, tried, conv>>

\* the next gyro test is called with its distance and safety limit
TestGyro ==
    /\ test.pos \in {TestPlan[i] : i \in 2..Len(TestPlan)}
    /\ test.ran[Len(test.ran)] # test.pos
    /\ StraightEntry(TestInches(test.pos), DEFAULT_SPEED, TestCap(test.pos))
    /\ test' = [test EXCEPT !.ran = Append(@, test.pos)]

(* the awaited gyro test has returned: test_movement takes the result and
   returns, or goes on; after the last test it stops both motors *)
TestResume(g) ==
    /\ pc = "returned"
    /\ fn = "straight"
    /\ test.pos \in {TestPlan[i] : i \in 2..Len(TestPlan)}
    /\ Discard
    /\ test' = AfterTest(test, result = PyBool(TRUE))
    /\ LET h == HandlerStop(g, left, right)
       IN  IF test'.cleanup
           THEN left' = h.left /\ right' = h.right
           ELSE UNCHANGED <<left, right>>

TestNext ==
    \/ \E hw \in Faults, g \in Faults : TestSimple(hw, g)
    \/ TestGyro
    \/ \E rd \in YawReads({0}), hw \in Faults : StraightStart(rd, hw)
    \/ \E rd \in YawReads({-1, 0, 1}) : StraightStep(rd)
    \/ StraightExit
    \/ StraightFinish(NoFault, NoFault)
    \/ \E g \in Faults : TestResume(g)

TestSpec == Init /\ [][TestNext]_vars

(* move_straight_with_gyro alone with the distances, speed and limits of
   test_movement and a second speed, the heading staying inside the
   deadband and no hardware call raising *)
EstimateNext ==
    \/ \E d \in EstimateDistances, s \in EstimateSpeeds, m \in EstimateCaps :
          StraightCall(d, s, m)
    \/ \E rd \in YawReads({0}) : StraightStart(rd, NoFault)
    \/ \E rd \in YawReads({-1, 0, 1}) : StraightStep(rd)
    \/ StraightExit
    \/ StraightFinish(NoFault, NoFault)
    \/ Return

EstimateSpec == Init /\ [][EstimateNext]_vars

(* The controllers with a yaw sensor that fails on every read inside the
   loops (the read of initial_yaw may still succeed) and hardware calls
   that do not raise outside the corrections *)
FailedRead == [ok |-> FALSE, v |-> 0]

FaultyReadNext ==
    \/ \E f \in Turns, deg \in DegreeArgs : TurnCall(f, deg, NoFault)
    \/ \E rd \in YawReads({0, MaxYaw}) : TurnStart(rd, NoFault)
    \/ TurnPoll(FailedRead)
    \/ TurnCap
    \/ TurnStop(NoFault)
    \/ StraightCall(MaxDistance, DEFAULT_SPEED, MaxCap)
    \/ \E rd \in YawReads({0, MaxYaw}) : StraightStart(rd, NoFault)
    \/ StraightStep(FailedRead)
    \/ StraightExit
    \/ StraightFinish(NoFault, NoFault)
    \/ Return

FaultyReadSpec == Init /\ [][FaultyReadNext]_vars

(* The calls that reach setup(): test_motor_pair's own call, the movement
   functions (a turn with a rejected angle returns right after it) *)
SetupNext ==
    \/ \E hw \in Faults : SetupCall(hw)
    \/ \E f \in Turns, hw \in Faults : TurnCall(f, 0, hw)
    \/ \E f \in Moves, d \in MoveDistances, t \in MoveTimes,
          hw \in Faults, hw2 \in Faults : MoveCall(f, d, t, hw, hw2)
    \/ \E hw \in Faults : MoveStop(hw)
    \/ Return

SetupSpec == Init /\ [][SetupNext]_vars

(* turn_right and turn_left with a yaw sensor that reports values wrapped
   into [-180, 180], initial_yaw 0 and no raising hardware call.  The run
   loop resumes the controller after every wait, so its steps are taken. *)
WrappedNext ==
    \/ \E f \in Turns, deg \in LargeTurns : TurnCall(f, deg, NoFault)
    \/ \E rd \in YawReads({0}) : TurnStart(rd, NoFault)
    \/ \E rd \in YawReads(WrappedYaws) : TurnPoll(rd)
    \/ TurnCap
    \/ TurnStop(NoFault)
    \/ Return

WrappedSpec == Init /\ [][WrappedNext]_vars /\ WF_vars(WrappedNext)

----------------------------------------------------------------------------
(* Properties *)

Exited == pc \in {"returned", "raised"}
AfterLoop == pc \in {"stopping", "returned", "raised"} /\ samples + stopOps > 0

\* C1: an invocation that has issued a speed command to a motor has issued
\* a stop command by the time it returns or raises, on every exit path.
C1_StopBeforeExit ==
    (Exited /\ speedCmds > 0) => stopCalls > 0

\* C2: the stop operation runs exactly once per invocation that got past
\* its entry checks, whichever way the invocation ends.
C2_StopExactlyOnce ==
    (Exited /\ yawResets > 0) => stopOps = 1

C4_NonPositiveDistanceRejected ==
    (fn = "straight" /\ distance_inches <= 0) =>
        /\ speedCmds = 0
        /\ yawResets = 0
        /\ result # "True"

\* C5: when the first yaw sample of a turn that satisfies the stop condition
\* is the sample with 0-based index k < 300, the loop is left with
\* iterations = k, stop_motors runs, and the turn returns True with both
\* motors stopped (it does not return only if stop_motors itself raises).
C5_BreakAtSampleK ==
    (fn \in Turns /\ broke) =>
        /\ pc \in {"stopping", "returned", "raised"}
        /\ iterations = samples - 1
        /\ iterations < 300
        /\ pc = "returned" =>
              /\ result = "True"
              /\ stopOps = 1
              /\ left = 0
              /\ right = 0
        /\ pc = "raised" => (stopOps = 1 /\ stopCalls > 0)

C5_Witness ==
    /\ fn = "turn_right"
    /\ broke
    /\ pc = "returned"
    /\ samples = 51
    /\ iterations = 50
    /\ result = "True"

\* C6: a turn whose yaw samples never satisfy the stop condition leaves
\* the loop after exactly 300 samples, then runs stop_motors and returns
\* False as an ordinary return value; no turn takes more than 300 samples.
C6_TimeoutAfterCap ==
    fn \in Turns =>
        /\ samples <= 300
        /\ iterations <= 300
        /\ (AfterLoop /\ ~broke) =>
              /\ samples = 300
              /\ iterations = 300
              /\ pc = "returned" =>
                    /\ result = "False"
                    /\ exit = "normal"
                    /\ stopOps = 1
                    /\ left = 0
                    /\ right = 0
              /\ pc = "raised" => (stopOps = 1 /\ stopCalls > 0)

C6_Witness ==
    /\ fn = "turn_left"
    /\ ~broke
    /\ pc = "returned"
    /\ samples = 300
    /\ result = "False"
    /\ exit = "normal"

\* the stop condition of the claim, on the values of the invocation
C7_Condition ==
    IF fn = "turn_right" THEN current_yaw <= (initial_yaw - degrees) + 3
                         ELSE current_yaw >= (initial_yaw + degrees) - 3

\* C7: the target of turn_right is initial_yaw - degrees, of turn_left
\* initial_yaw + degrees; the loop is left through break exactly on a sample
\* with current_yaw <= target + 3 (right) or current_yaw >= target - 3
\* (left); it goes on after every other sample until the cap, and the first
\* sample that satisfies the condition ends it at once.
C7_BreakExactlyOnCondition ==
    (fn \in Turns /\ samples > 0) =>
        /\ target_yaw = IF fn = "turn_right" THEN initial_yaw - degrees
                                             ELSE initial_yaw + degrees
        /\ broke <=> C7_Condition
        /\ broke => pc # "loop"
        /\ (~broke /\ pc # "loop") => iterations = 300
        /\ (~broke /\ pc = "loop") => iterations = samples

C7_Witness ==
    /\ fn = "turn_left"
    /\ initial_yaw = 1
    /\ broke
    /\ pc = "stopping"
    /\ current_yaw = target_yaw - 3
    /\ iterations > 1

\* C8: the command that starts a turn drives the wheels at equal speed in
\* opposite directions, left = +DEFAULT_SPEED and right = -DEFAULT_SPEED for
\* turn_right and the reverse for turn_left, on each of the three actuation
\* variants, and it is the only speed command until the stop.
C8_OppositeWheelSpeeds ==
    (fn \in Turns /\ pc \in {"loop", "stopping"}) =>
        /\ via \in {"tank_pair", "tank", "direct"}
        /\ ~using_tank_mode => via = "direct"
        /\ left = IF fn = "turn_right" THEN DEFAULT_SPEED ELSE -DEFAULT_SPEED
        /\ right = -left
        /\ speedCmds = 1

C8_Witness ==
    /\ fn = "turn_left"
    /\ pc = "loop"
    /\ using_tank_mode
    /\ via = "direct"
    /\ iterations > 0
    /\ left = -30
    /\ right = 30

\* C9: absent a raised fault the loop of move_straight_with_gyro runs
\* exactly min(estimated_iterations, max_iterations) passes, none when that
\* minimum is not positive, and iterations never exceeds max_iterations.
C9_StraightLoopBound ==
    fn = "straight" =>
        /\ iterations <= max_iterations
        /\ iterations <= Max(0, Min(estimated_iterations, max_iterations))
        /\ samples = iterations
        /\ (pc = "stopping" \/ (pc = "returned" /\ exit = "normal")) =>
              iterations = Max(0, Min(estimated_iterations, max_iterations))

C9_Witness ==
    /\ fn = "straight"
    /\ pc = "returned"
    /\ exit = "normal"
    /\ estimated_iterations = 15
    /\ max_iterations = 7
    /\ iterations = 7
    /\ corrections > 0

\* C10: absent a raised fault move_straight_with_gyro returns
\* iterations < max_iterations as evaluated at loop exit: True when the
\* estimate was reached below the cap, False when the cap was reached,
\* also when estimate and cap are reached on the same pass.
C10_StraightResult ==
    (fn = "straight" /\ pc = "returned" /\ exit = "normal") =>
        /\ result = PyBool(iterations < max_iterations)
        /\ iterations = max_iterations => result = "False"
        /\ (iterations = estimated_iterations
              /\ estimated_iterations < max_iterations) => result = "True"
        /\ estimated_iterations >= max_iterations => result = "False"

C10_Witness ==
    /\ fn = "straight"
    /\ pc = "returned"
    /\ exit = "normal"
    /\ estimated_iterations = max_iterations
    /\ iterations = 7
    /\ result = "False"

\* C11: the stopping decision of move_straight_with_gyro is open-loop: when
\* the invocation returns without a raised fault, the number of loop
\* iterations and the returned boolean are determined by distance_inches,
\* speed and max_iterations alone, whatever yaw values were sampled (so two
\* runs with the same arguments and different yaw sequences agree on both).
C11_OpenLoopStop ==
    (fn = "straight" /\ exit = "normal") =>
        LET n == Max(0, Min(TruncDiv(distance_inches * 15 * 30, speed),
                            max_iterations))
        IN  /\ iterations = n
            /\ samples = n
            /\ result = PyBool(n < max_iterations)

\* a normal return after several passes, some of which corrected the heading
C11_Witness ==
    /\ fn = "straight" /\ exit = "normal"
    /\ iterations >= 7
    /\ corrections > 0
    /\ current_yaw # initial_yaw

\* C12: in an invocation of move_straight_with_gyro whose every yaw sample
\* so far lies within 1 degree of initial_yaw, no correction has been
\* issued: the only speed command is the initial symmetric (speed, speed),
\* which stays in force on both motors until the stop.
C12_NoCorrectionInDeadband ==
    (fn = "straight" /\ inBand /\ samples > 0) =>
        /\ corrections = 0
        /\ speedCmds = 1
        /\ pc \in {"loop", "stopping"} => (left = speed /\ right = speed)

\* several samples, one of them 1 degree off, all within the deadband
C12_Witness ==
    /\ fn = "straight" /\ inBand
    /\ samples >= 3
    /\ Abs(current_yaw - initial_yaw) = 1
    /\ pc = "loop"
    /\ left = speed /\ right = speed

\* a correction computed from the latest sample is in force on both motors
Corrected ==
    /\ fn = "straight" /\ pc = "loop" /\ samples > 0
    /\ Abs(current_yaw - initial_yaw) > 1

\* C13: the steering sign of move_straight_with_gyro agrees with the yaw
\* frame of the turns (a left turn raises yaw and runs the right wheel
\* faster): with error = current_yaw - initial_yaw above +1 the correction
\* has left >= right, below -1 it has left <= right, and the two speeds are
\* equal only when both are clamped to the same end of [10, 100].
C13_SteeringSign ==
    /\ TargetYaw("turn_left", 0, 1) > 0
    /\ TurnLeftSpeed("turn_left") < TurnRightSpeed("turn_left")
    /\ Corrected =>
        LET error == current_yaw - initial_yaw
        IN  /\ error > 1 => left >= right
            /\ error < -1 => left <= right
            /\ left = right => left \in {10, 100}

\* a body yawed left by more than the deadband is steered right, the faster
\* wheel held by the upper clamp
C13_Witness ==
    /\ Corrected
    /\ current_yaw - initial_yaw > 1
    /\ speed = 60
    /\ left = 100 /\ right < 60 /\ right > 10

\* C14: the magnitude of the steering term of move_straight_with_gyro is
\* monotone non-decreasing in |error| outside the deadband and never above
\* 100: for the error e1 just corrected and every error e2 of the same sign
\* with |e1| <= |e2|, |steering(e1)| <= |steering(e2)| <= 100, and both slow
\* the wheel of the same side.
C14_SteeringMonotone ==
    Corrected =>
        LET e1 == current_yaw - initial_yaw
        IN  /\ Abs(steering) <= 100
            /\ \A e2 \in WideYaw :
                 (e1 * e2 > 0 /\ Abs(e1) <= Abs(e2)) =>
                    /\ Abs(steering) <= Abs(Steering(e2))
                    /\ Abs(Steering(e2)) <= 100
                    /\ (steering < 0) = (Steering(e2) < 0)
                    /\ right < left =>
                          RightSpeed(speed, e2) <= LeftSpeed(speed, e2)
                    /\ left < right =>
                          LeftSpeed(speed, e2) <= RightSpeed(speed, e2)

\* an error large enough for the steering term to sit at its clamp
C14_Witness ==
    /\ Corrected
    /\ current_yaw - initial_yaw < -1
    /\ current_yaw - initial_yaw > -MaxError
    /\ steering = 100
    /\ speed = 30
    /\ left = 10 /\ right = 100

\* C15 as stated: for every error outside the deadband the command equals
\* steering = clamp(-error * 1.5, -100, 100), left = clamp(speed - steering,
\* 10, 100), right = clamp(speed + steering, 10, 100) with no rounding of the
\* steering term.  All quantities are doubled to stay in the integers.
C15_ReferenceNoRounding ==
    Corrected =>
        LET error == current_yaw - initial_yaw
            steering2 == Max(-200, Min(200, -3 * error))
        IN  /\ 2 * left = Max(20, Min(200, 2 * speed - steering2))
            /\ 2 * right = Max(20, Min(200, 2 * speed + steering2))

\* C15, amended: the command equals the reference computation in which the
\* product error * 1.5 is truncated toward zero to an integer before it is
\* negated and clamped: steering = clamp(-trunc(error * 1.5), -100, 100),
\* left = clamp(speed - steering, 10, 100), right = clamp(speed + steering,
\* 10, 100).
C15_ReferenceTruncated ==
    Corrected =>
        LET error == current_yaw - initial_yaw
            trunc == IF error >= 0 THEN (3 * error) \div 2
                                   ELSE -((3 * (-error)) \div 2)
            ref == Max(-100, Min(100, -trunc))
        IN  /\ steering = ref
            /\ left = Max(10, Min(100, speed - ref))
            /\ right = Max(10, Min(100, speed + ref))

\* an error whose product with the gain is not an integer: -3 * 1.5 = -4.5
C15_Witness ==
    /\ Corrected
    /\ current_yaw - initial_yaw = -3
    /\ speed = 30
    /\ steering = 4
    /\ left = 26 /\ right = 34

\* C16: start-up order of move_straight_with_gyro, turn_right and turn_left:
\* reset the yaw, wait at least 100 ms in a cooperative wait, sample
\* initial_yaw, and only then issue the first speed command; between the
\* reset and the end of the wait no control sample is taken and no speed
\* command is issued.
C16_StartupOrder ==
    LET order == <<"reset_yaw", "wait:await", "initial_yaw", "speed">>
    IN  fn \in Turns \cup {"straight"} =>
        /\ Len(startup) \in {0, 1, 4}
        /\ \A i \in 1..Len(startup) : startup[i].op = order[i]
        /\ Len(startup) = 4 => startup[2].ms >= 100
        /\ pc = "stabilize" =>
              /\ Len(startup) = 1
              /\ yawResets = 1
              /\ wait.kind = "await" /\ wait.ms >= 100
              /\ samples = 0 /\ speedCmds = 0
        /\ (samples > 0 \/ speedCmds > 0) =>
              (Len(startup) = 4 /\ yawResets = 1)

\* a turn that has gone through the whole start-up and is sampling
C16_Witness ==
    /\ fn = "turn_left"
    /\ pc = "loop"
    /\ samples > 1
    /\ Len(startup) = 4
    /\ left = -30 /\ right = 30

C18_StopOnCancel ==
    exit = "cancelled" => stopOps > 0

\* C19: an invocation whose stop operation ran while every stop call it
\* attempted raised (both motors still hold their speed) has returned a
\* result; it has not ended with an exception.
C19_ReturnsWhenStopFails ==
    (stopOps > 0 /\ left # 0 /\ right # 0 /\ pc \in {"returned", "raised"})
        => pc = "returned"

\* C20: every wait inside the loops of move_straight_with_gyro, turn_right
\* and turn_left is a cooperative suspension: whenever a controller is
\* between two consecutive yaw samples it is suspended in an awaited wait,
\* never in a blocking one, and another task of the run loop is able to
\* take a step.
C20_CooperativeLoopWait ==
    (fn \in Turns \cup {"straight"} /\ pc = "loop" /\ samples > 0) =>
        /\ wait.kind = "await"
        /\ wait.ms > 0
        /\ ENABLED OtherStep

\* the other task has run between two samples of the straight drive
C20_Witness ==
    /\ fn = "straight"
    /\ pc = "loop"
    /\ samples = 2
    /\ wait = LoopWait
    /\ otherSteps = 1
    /\ corrections > 0

\* C21: inches_to_degrees(inches) is 360 * inches / (3.14159 * 2.0)
\* truncated toward zero, also for negative distances (-0.5 inch gives -28,
\* not -29), in the three implementations.
C21_TruncatedTowardZero ==
    cur.kind = "distance" =>
        LET q == IF cur.x >= 0 THEN (360 * cur.x) \div 628318
                               ELSE -((360 * (-cur.x)) \div 628318)
        IN  /\ cur.lib = q
            /\ cur.straight = q
            /\ cur.square = q

\* a negative distance whose quotient is not an integer
C21_Witness ==
    /\ cur.kind = "distance"
    /\ cur.x = -50000
    /\ cur.lib = -28

\* C22: the distance-to-degrees conversion fails with an error for a wheel
\* diameter <= 0; it returns no number for a zero or negative diameter.
C22_InvalidGeometryRejected ==
    (cur.kind = "diameter" /\ cur.wd <= 0) => cur.raised

\* C23: for a fixed positive diameter inches_to_degrees is strictly
\* increasing in the distance (d1 < d2 gives a smaller result for d1), and
\* the result for distance 0 is 0.
C23_StrictlyIncreasing ==
    /\ (cur.kind = "distance" /\ cur.x = 0) => cur.lib = 0
    /\ (cur.kind = "distance" /\ prev.kind = "distance" /\ prev.x < cur.x)
          => prev.lib < cur.lib

\* C23 as the code has it: the truncated result is non-decreasing in the
\* distance (distances closer than one degree of wheel rotation share a
\* result), and the result for distance 0 is 0.
C23_NonDecreasing ==
    /\ (cur.kind = "distance" /\ cur.x = 0)
          => (cur.lib = 0 /\ cur.straight = 0 /\ cur.square = 0)
    /\ (cur.kind = "distance" /\ prev.kind = "distance" /\ prev.x < cur.x)
          => (/\ prev.lib <= cur.lib
              /\ prev.straight <= cur.straight
              /\ prev.square <= cur.square)

C23_Witness ==
    /\ cur.kind = "distance" /\ prev.kind = "distance"
    /\ prev.x = 1 /\ cur.x = 2
    /\ prev.lib = 0 /\ cur.lib = 0

\* C24: degrees_to_wheel_degrees(0) = 0 and doubling the turn angle doubles
\* the result, degrees_to_wheel_degrees(2t) = 2 * degrees_to_wheel_degrees(t);
\* the same for calculate_turn_degrees.
C24_Linear ==
    /\ (cur.kind = "turn" /\ cur.x = 0) => (cur.lib = 0 /\ cur.square = 0)
    /\ (cur.kind = "turn" /\ prev.kind = "turn" /\ cur.fl = prev.fl
            /\ cur.x = 2 * prev.x)
          => (cur.lib = 2 * prev.lib /\ cur.square = 2 * prev.square)

\* C24 as the code has it: the result for angle 0 is 0, and the result for
\* 2t is twice the result for t or one more than that in magnitude (the
\* half degree that the truncation drops at t is kept at 2t).
C24_LinearUpToTruncation ==
    /\ (cur.kind = "turn" /\ cur.x = 0) => (cur.lib = 0 /\ cur.square = 0)
    /\ (cur.kind = "turn" /\ prev.kind = "turn" /\ cur.fl = prev.fl
            /\ cur.x = 2 * prev.x)
          => (/\ Sgn(cur.x) * (cur.lib - 2 * prev.lib) \in {0, 1}
              /\ Sgn(cur.x) * (cur.square - 2 * prev.square) \in {0, 1})

C24_Witness ==
    /\ cur.kind = "turn" /\ prev.kind = "turn" /\ cur.fl = prev.fl
    /\ prev.x = 2 /\ cur.x = 4
    /\ prev.lib = 4 /\ cur.lib = 9

\* C25: with wheel diameter 2.0, one wheel circumference converts to exactly
\* 360 degrees and k circumferences convert to 360 * k for every small
\* positive k.
C25_WholeRevolutions ==
    cur.kind = "circumferences" => cur.lib * (2 * PiE5) = 360 * cur.x

\* C26: the conversions agree: for every distance the three distance
\* conversions return the same integer, and for every turn angle
\* degrees_to_wheel_degrees and calculate_turn_degrees return the same
\* integer.
C26_ConversionsAgree ==
    /\ cur.kind \in {"distance", "circumferences"}
          => (cur.lib = cur.straight /\ cur.lib = cur.square)
    /\ cur.kind = "turn" => cur.lib = cur.square

C29_StrategyOrder ==
    (fn = "move_forward" /\ pc # "idle" /\ distance_inches > 0) =>
        /\ tried \in {<<"move_for_degrees">>,
                      <<"move_for_degrees", "run_for_degrees">>,
                      <<"move_for_degrees", "run_for_degrees", "timed">>}
        /\ exit = "degrees"
              => (/\ result = "True" /\ tried[Len(tried)] # "timed"
                  /\ speedCmds = 0)
        /\ exit = "normal" => (result = "True" /\ tried[Len(tried)] = "timed")
        /\ result = "False"
              => (/\ exit = "handler" /\ tried[Len(tried)] = "timed"
                  /\ stopOps >= 1)

\* C29 as the code has it: the same, except that in direct mode (setup
\* found no working pair call) move_for_degrees is skipped and
\* run_for_degrees is the first strategy.
C29_StrategyOrderByMode ==
    (fn = "move_forward" /\ pc # "idle" /\ distance_inches > 0) =>
        /\ using_tank_mode
              => tried \in {<<"move_for_degrees">>,
                            <<"move_for_degrees", "run_for_degrees">>,
                            <<"move_for_degrees", "run_for_degrees",
                              "timed">>}
        /\ ~using_tank_mode
              => tried \in {<<"run_for_degrees">>,
                            <<"run_for_degrees", "timed">>}
        /\ exit = "degrees"
              => (/\ result = "True" /\ tried[Len(tried)] # "timed"
                  /\ speedCmds = 0)
        /\ exit = "normal" => (result = "True" /\ tried[Len(tried)] = "timed")
        /\ result = "False"
              => (/\ exit = "handler" /\ tried[Len(tried)] = "timed"
                  /\ stopOps >= 1)

C29_Witness ==
    /\ fn = "move_forward" /\ pc = "returned" /\ distance_inches > 0
    /\ using_tank_mode
    /\ tried = <<"move_for_degrees", "run_for_degrees", "timed">>
    /\ result = "False" /\ stopOps >= 1

\* C30: in move_straight_with_gyro a sample inside the deadband issues no
\* command, also after an asymmetric correction: the wheel speeds last
\* commanded stay in force until the next sample outside the deadband or
\* the stop.
C30_InBandKeepsSpeeds ==
    [][(/\ pc = "loop" /\ fn = "straight"
        /\ iterations' = iterations + 1
        /\ Abs(current_yaw' - initial_yaw) <= Deadband)
          => (/\ left' = left /\ right' = right
              /\ speedCmds' = speedCmds /\ corrections' = corrections
              /\ pc' = "loop")]_vars

C30_Witness ==
    /\ pc = "loop" /\ fn = "straight"
    /\ corrections > 0 /\ left # right
    /\ samples >= 2 /\ Abs(current_yaw - initial_yaw) <= Deadband

\* C31: every corrective command of move_straight_with_gyro has both wheel
\* speeds in [10, 100], whatever the yaw error and the nominal speed, so a
\* correction never stops or reverses a wheel; only the initial symmetric
\* command can lie outside that range.
C31_CorrectionRange ==
    (fn = "straight" /\ pc = "loop") =>
        IF corrections > 0
        THEN /\ left \in MinSpeed..MaxSpeed
             /\ right \in MinSpeed..MaxSpeed
        ELSE left = speed /\ right = speed

C31_Witness ==
    /\ fn = "straight" /\ pc = "loop" /\ speed = 5
    /\ corrections > 0 /\ left = MinSpeed /\ right = MinSpeed

\* C32: for turn_right and turn_left with 0 < degrees <= 3, a first loop
\* sample equal to initial_yaw already satisfies the stop condition: the
\* turn stops with iterations = 0 and returns True without the yaw having
\* changed.
C32_SmallTurnStopsAtOnce ==
    (/\ fn \in Turns /\ degrees > 0 /\ degrees <= StopThreshold
     /\ samples = 1 /\ current_yaw = initial_yaw)
        => /\ broke /\ iterations = 0
           /\ pc \in {"stopping", "returned", "raised"}
           /\ pc = "returned" => (result = "True" /\ exit = "normal")

C32_Witness ==
    /\ fn \in Turns /\ degrees = StopThreshold
    /\ samples = 1 /\ current_yaw = initial_yaw /\ initial_yaw = 1
    /\ pc = "returned" /\ result = "True" /\ iterations = 0

\* C33: a failing yaw read never aborts a controller: get_yaw_angle turns
\* the fault into the value 0 and the controllers go on with yaw 0; with
\* initial_yaw = 0, degrees > 3 and every read failing, a turn runs to the
\* 300-iteration limit, stops the motors and returns False.
C33_FaultyReadIsZero ==
    /\ pc # "raised"
    /\ samples > 0 => current_yaw = 0
    /\ (fn \in Turns /\ initial_yaw = 0 /\ degrees > StopThreshold
            /\ pc = "returned")
          => (/\ ~broke /\ iterations = TurnMaxIterations
              /\ samples = TurnMaxIterations
              /\ stopOps = 1 /\ left = 0 /\ right = 0
              /\ result = "False")

C33_Witness ==
    /\ fn \in Turns /\ initial_yaw = 0 /\ degrees > StopThreshold
    /\ pc = "returned" /\ iterations = TurnMaxIterations
    /\ result = "False" /\ stopOps = 1

\* C34: with a sensor that reports yaw wrapped into [-180, 180] and
\* initial_yaw 0, a turn by more than 183 degrees never meets its stop
\* condition, whatever the samples: it always ends at the 300-iteration
\* limit and returns False.
C34_WrappedYawTimesOut ==
    /\ [](/\ (fn \in Turns /\ degrees > 183) => ~broke
          /\ (fn \in Turns /\ degrees > 183 /\ pc = "returned")
                => (iterations = TurnMaxIterations /\ result = "False"))
    /\ (fn \in Turns /\ degrees > 183 /\ pc = "stabilize")
          ~> (/\ fn \in Turns /\ degrees > 183 /\ pc = "returned"
              /\ iterations = TurnMaxIterations /\ result = "False")

C34_Witness ==
    /\ fn \in Turns /\ degrees = 184 /\ pc = "returned"
    /\ current_yaw \in {-180, 180}
    /\ iterations = TurnMaxIterations /\ result = "False"

\* C35: in the timed paths of move_forward and move_backward (an explicit
\* time, and the time-based fallback) the order is: speed command, one
\* awaited wait of the computed duration, stop command, return True; there
\* is no return between the speed command and the stop unless a call
\* raised.
C35_TimedOrder ==
    /\ [](/\ (fn \in Moves /\ pc = "timed")
                => (/\ speedCmds >= 1 /\ stopOps = 0 /\ result = "none"
                    /\ tried[Len(tried)] \in {"timed", "time"}
                    /\ wait.kind = "await"
                    /\ wait.ms = IF distance_inches > 0
                                 THEN TruncDiv(distance_inches * 100000,
                                               8 * DEFAULT_SPEED)
                                 ELSE 1000 * distance_time)
          /\ (fn \in Moves /\ pc = "returned" /\ speedCmds > 0)
                => stopOps >= 1)
    /\ [][(fn' \in Moves /\ pc' = "returned" /\ speedCmds' > 0
              /\ result' = "True")
            => (/\ pc = "timed" /\ wait.kind = "await"
                /\ speedCmds' = speedCmds
                /\ stopOps = 0 /\ stopOps' = 1
                /\ left' = 0 /\ right' = 0)]_vars

C35_Witness ==
    /\ fn = "move_backward" /\ pc = "returned" /\ result = "True"
    /\ tried = <<"move_for_degrees", "run_for_degrees", "timed">>
    /\ speedCmds >= 1 /\ stopOps = 1 /\ left = 0 /\ right = 0

\* a wheel speed after the two calls: negated, or left as it was by both
MirroredWheel(fwd, bwd, before) ==
    \/ bwd = -fwd
    \/ fwd = before /\ bwd = before

C37_SetupOnce ==
    /\ [](/\ setupRuns <= 1
          /\ is_setup_done <=> setupRuns = 1
          /\ (program = "lib" /\ fn # "none") => is_setup_done
          /\ setup_result = "False" => (is_setup_done /\ ~using_tank_mode))
    /\ [][is_setup_done
            => (/\ is_setup_done'
                /\ using_tank_mode' = using_tank_mode
                /\ setupRuns' = setupRuns
                /\ setup_result' \in {setup_result, "True"})]_vars

C37_Witness ==
    /\ is_setup_done /\ ~using_tank_mode /\ setupRuns = 1
    /\ setup_result = "True" /\ fn \in Moves /\ pc = "timed"

(* C38: test_movement runs its tests in the fixed order simple 3 in, gyro
   3 in, gyro 6 in, gyro 10 in: the tests started so far are always an
   initial part of that list, a controller that is running is the test
   started last with its distance, and a test starts only while no other
   is running.  A failure of the simple, the 3 in or the 6 in test ends the
   function at once: no later test has started, the final motor stop and
   the summary have not run, and nothing runs afterwards.  The summary is
   printed only when all four tests were executed. *)
C38_TestOrderAndGates ==
    /\ [](program = "straight" =>
            /\ Len(test.ran) <= Len(TestPlan)
            /\ \A i \in 1..Len(test.ran) : test.ran[i] = TestPlan[i]
            /\ Len(test.outcomes) <= Len(test.ran)
            /\ (pc # "idle") =>
                   /\ fn = "straight"
                   /\ Len(test.ran) >= 2
                   /\ Len(test.outcomes) = Len(test.ran) - 1
                   /\ distance_inches = TestInches(test.ran[Len(test.ran)])
                   /\ max_iterations = TestCap(test.ran[Len(test.ran)])
                   /\ speed = DEFAULT_SPEED
            /\ \A i \in 1..Len(test.outcomes) :
                   (i < Len(TestPlan) /\ test.outcomes[i] = PyBool(FALSE)) =>
                       /\ test.pos = "returned"
                       /\ Len(test.ran) = i
                       /\ Len(test.outcomes) = i
                       /\ ~test.cleanup
                       /\ ~test.summary
                       /\ pc = "idle"
            /\ test.summary =>
                   /\ Len(test.ran) = Len(TestPlan)
                   /\ Len(test.outcomes) = Len(TestPlan)
                   /\ test.cleanup)
    /\ [][((test.ran' # test.ran) =>
                /\ pc = "idle"
                /\ Len(test.outcomes) = Len(test.ran)
                /\ test.ran' = Append(test.ran, TestPlan[Len(test.ran) + 1]))
           /\ ((test.pos = "returned") => UNCHANGED vars)]_vars

\* the 6 in test has failed after two passed tests: test_movement returned
C38_Witness ==
    /\ test.pos = "returned"
    /\ test.ran = <<"simple 3 in", "gyro 3 in", "gyro 6 in">>
    /\ test.outcomes = <<"True", "True", "False">>
    /\ ~test.summary

====
